---- MODULE Spec2Model ----
(***************************************************************************)
(* GPS relay firmware (src/main.rs).  USART1 receives bytes from the       *)
(* GP-735T module, the USART1 interrupt handler queues them in a heapless  *)
(* spsc Queue<u16, 64>, the USART2 interrupt handler writes queued bytes   *)
(* to USART2's transmit register and interprets bytes received on USART2   *)
(* as commands that drive pin A12.                                         *)
(*                                                                         *)
(* The two handlers run at the same (default) interrupt priority, so each  *)
(* invocation runs to completion: one action per handler invocation.  A    *)
(* handler is the composition of its branches, each an operator on the     *)
(* machine record built by Cur.                                            *)
(*                                                                         *)
(* The second half of the module steps the handlers one register or queue  *)
(* access at a time: SpecPreempt lets USART1() preempt USART2() (USART1    *)
(* given the higher priority), SpecBoot runs main() from its CR1 writes.   *)
(***************************************************************************)
EXTENDS Integers, Sequences, FiniteSets, TLC

VARIABLES
    usart1,     \* USART1 registers: ISR.RXNE, ISR.ORE, RDR
    usart2,     \* USART2 registers: ISR.TXE, ISR.RXNE, ISR.ORE, RDR, TDR, CR1.TXEIE
    gpioa,      \* GPIOA: output data bit 12
    buffer,     \* BUFFER: the ring of the spsc queue (head, tail, slots)
    enq,        \* history: values USART1() enqueued successfully
    sent,       \* history: values USART2() wrote to TDR
    wire,       \* history: values the transmitter shifted out of TDR
    gpsIn,      \* history: bytes the USART1 receiver latched into RDR
    hostRead,   \* history: bytes USART2() read from RDR
    last,       \* history: what the most recent handler invocation did
    feed,       \* the bytes the GPS module will send, in order
    fed,        \* how many bytes of feed have arrived on USART1
    hostFeed,   \* the bytes the UART adaptor will send, in order
    hostFed,    \* how many bytes of hostFeed have arrived on USART2
    cpu         \* main's and the handlers' positions, the NVIC masks, the
                \* installed statics, and histories of the stepped handlers

vars == <<usart1, usart2, gpioa, buffer, enq, sent, wire, gpsIn, hostRead, last,
          feed, fed, hostFeed, hostFed, cpu>>

---------------------------------------------------------------------------
(* Program constants *)

\* Queue<u16, 64>: the ring has 64 slots
QueueN == 64

\* b'0' and b'1'
Ascii0 == 48
Ascii1 == 49

(* Bounds of the model *)

\* length of the GPS feeds of Spec
MaxFeed == 3
\* length of the adaptor feeds of Spec
MaxHostRelay == 1
\* length of the GPS feeds of SpecCmd
MaxFeedCmd == 2
\* length of the adaptor feeds of SpecCmd
MaxHost == 3
\* length of the GPS feeds of SpecLive (besides the end-to-end scenario)
MaxFeedLive == 2
\* bytes the GPS feed of SpecFill holds beyond the ring's 64 slots
FillExtra == 2
\* length of the GPS feeds of SpecPreempt and SpecBoot
MaxFeedStep == 2
\* length of the adaptor feeds of SpecPreempt and SpecBoot
MaxHostStep == 2

\* byte values on the GPS link: null, 'G', 'P'
GpsBytes == {0, 71, 80}
\* byte values on the adaptor link: '0', '1', '2'
HostBytes == {Ascii0, Ascii1, 50}

\* all sequences over S of length exactly n
SeqsOfLen(S, n) == [1..n -> S]

---------------------------------------------------------------------------
(* heapless::spsc::Queue<u16, 64>: a ring of QueueN slots, head and tail   *)
(* cursors; one slot always stays free, so it holds at most QueueN - 1.    *)

EmptyQueue == [head |-> 0, tail |-> 0, buf |-> [i \in 0..(QueueN - 1) |-> 0]]

QueueLen(q) == (q.tail - q.head + QueueN) % QueueN

QueueCapacity == QueueN - 1

IsEmpty(q) == q.head = q.tail

\* IsFull, with the free slot counted twice
IsFullOffByOne(q) == (q.tail + 2) % QueueN = q.head

IsFull(q) == (q.tail + 1) % QueueN = q.head

\* Enqueue, writing the slot after the tail cursor
EnqueueOffByOne(q, val) ==
    IF IsFull(q)
    THEN [ok |-> FALSE, q |-> q]
    ELSE [ok |-> TRUE,
          q  |-> [q EXCEPT !.buf[(q.tail + 1) % QueueN] = val,
                           !.tail = (q.tail + 1) % QueueN]]

\* Enqueue, without the check for a full ring
EnqueueOverwrite(q, val) ==
    [ok |-> TRUE,
     q  |-> [q EXCEPT !.buf[q.tail] = val, !.tail = (q.tail + 1) % QueueN]]

\* buffer.enqueue(val): Ok and the new queue, or Err and the queue untouched
Enqueue(q, val) ==
    IF IsFull(q)
    THEN [ok |-> FALSE, q |-> q]
    ELSE [ok |-> TRUE,
          q  |-> [q EXCEPT !.buf[q.tail] = val, !.tail = (q.tail + 1) % QueueN]]

\* Dequeue, taking the newest value instead of the oldest
DequeueLifo(q) ==
    IF IsEmpty(q)
    THEN [some |-> FALSE, val |-> 0, q |-> q]
    ELSE [some |-> TRUE, val |-> q.buf[(q.tail + QueueN - 1) % QueueN],
          q    |-> [q EXCEPT !.tail = (q.tail + QueueN - 1) % QueueN]]

\* buffer.dequeue(): Some(val) and the new queue, or None
Dequeue(q) ==
    IF IsEmpty(q)
    THEN [some |-> FALSE, val |-> 0, q |-> q]
    ELSE [some |-> TRUE, val |-> q.buf[q.head],
          q    |-> [q EXCEPT !.head = (q.head + 1) % QueueN]]

\* the queued values, head to tail
Contents(q) == [i \in 1..QueueLen(q) |-> q.buf[(q.head + i - 1) % QueueN]]

---------------------------------------------------------------------------
(* The machine record the handler branches work on *)

Cur == [usart1 |-> usart1, usart2 |-> usart2, gpioa |-> gpioa, buffer |-> buffer,
        enq |-> enq, sent |-> sent, hostRead |-> hostRead, last |-> last]

Begin(h) == [Cur EXCEPT !.last = [h |-> h, rx |-> "none", tx |-> "none", ore |-> FALSE]]

Commit(m) ==
    /\ usart1' = m.usart1
    /\ usart2' = m.usart2
    /\ gpioa' = m.gpioa
    /\ buffer' = m.buffer
    /\ enq' = m.enq
    /\ sent' = m.sent
    /\ hostRead' = m.hostRead
    /\ last' = m.last

---------------------------------------------------------------------------
(* fn USART1() *)

\* U1_Rx, without enabling the TXE interrupt after the enqueue
U1_RxNoEnable(m) ==
    IF m.usart1.rxne
    THEN LET received_byte == m.usart1.rdr
             m1 == [m EXCEPT !.usart1.rxne = FALSE]
             r  == Enqueue(m.buffer, received_byte)
         IN  IF received_byte # 0
             THEN IF r.ok
                  THEN [m1 EXCEPT !.buffer = r.q,
                                  !.enq = Append(m.enq, received_byte),
                                  !.last.rx = "queued"]
                  ELSE [m1 EXCEPT !.last.rx = "full"]
             ELSE [m1 EXCEPT !.last.rx = "null"]
    ELSE m

\* U1_Rx, without the test for the null byte
U1_RxNoFilter(m) ==
    IF m.usart1.rxne
    THEN LET received_byte == m.usart1.rdr
             m1 == [m EXCEPT !.usart1.rxne = FALSE]
             r  == Enqueue(m.buffer, received_byte)
         IN  IF r.ok
             THEN [m1 EXCEPT !.buffer = r.q,
                             !.usart2.txeie = TRUE,
                             !.enq = Append(m.enq, received_byte),
                             !.last.rx = "queued"]
             ELSE [m1 EXCEPT !.last.rx = "full"]
    ELSE m

\* if RXNE: read RDR (clears RXNE); a non-null byte is enqueued and, if the
\* enqueue succeeded, USART2's TXE interrupt is enabled
U1_Rx(m) ==
    IF m.usart1.rxne
    THEN LET received_byte == m.usart1.rdr
             m1 == [m EXCEPT !.usart1.rxne = FALSE]
             r  == Enqueue(m.buffer, received_byte)
         IN  IF received_byte # 0
             THEN IF r.ok
                  THEN [m1 EXCEPT !.buffer = r.q,
                                  !.usart2.txeie = TRUE,
                                  !.enq = Append(m.enq, received_byte),
                                  !.last.rx = "queued"]
                  ELSE [m1 EXCEPT !.last.rx = "full"]
             ELSE [m1 EXCEPT !.last.rx = "null"]
    ELSE m

\* if ORE: write ICR.ORECF, which clears ORE
U1_Ore(m) ==
    IF m.usart1.ore
    THEN [m EXCEPT !.usart1.ore = FALSE, !.last.ore = TRUE]
    ELSE m

\* the USART1 interrupt is raised by RXNE or ORE (CR1.RXNEIE is set by main)
Irq1 == usart1.rxne \/ usart1.ore

USART1 ==
    /\ Irq1
    /\ Commit(U1_Ore(U1_Rx(Begin("USART1"))))
    /\ UNCHANGED <<wire, gpsIn, feed, fed, hostFeed, hostFed, cpu>>

---------------------------------------------------------------------------
(* fn USART2() *)

\* U2_Tx, never disabling the TXE interrupt after a write
U2_TxNoDisable(m) ==
    IF m.usart2.txe
    THEN LET d == Dequeue(m.buffer)
         IN  IF d.some
             THEN [m EXCEPT !.buffer = d.q,
                            !.usart2.tdr = d.val,
                            !.usart2.txe = FALSE,
                            !.sent = Append(m.sent, d.val),
                            !.last.tx = IF IsEmpty(d.q) THEN "sent_last" ELSE "sent"]
             ELSE [m EXCEPT !.usart2.txeie = FALSE, !.last.tx = "empty"]
    ELSE m

\* U2_Tx, disabling the TXE interrupt after every write
U2_TxAlwaysDisable(m) ==
    IF m.usart2.txe
    THEN LET d == Dequeue(m.buffer)
         IN  IF d.some
             THEN [m EXCEPT !.buffer = d.q,
                            !.usart2.tdr = d.val,
                            !.usart2.txe = FALSE,
                            !.usart2.txeie = FALSE,
                            !.sent = Append(m.sent, d.val),
                            !.last.tx = IF IsEmpty(d.q) THEN "sent_last" ELSE "sent"]
             ELSE [m EXCEPT !.usart2.txeie = FALSE, !.last.tx = "empty"]
    ELSE m

\* if TXE: dequeue; Some(byte) is written to TDR (clears TXE) and the TXE
\* interrupt is disabled if the queue is now empty; None disables it
U2_Tx(m) ==
    IF m.usart2.txe
    THEN LET d == Dequeue(m.buffer)
         IN  IF d.some
             THEN LET m1 == [m EXCEPT !.buffer = d.q,
                                      !.usart2.tdr = d.val,
                                      !.usart2.txe = FALSE,
                                      !.sent = Append(m.sent, d.val)]
                  IN  IF IsEmpty(d.q)
                      THEN [m1 EXCEPT !.usart2.txeie = FALSE, !.last.tx = "sent_last"]
                      ELSE [m1 EXCEPT !.last.tx = "sent"]
             ELSE [m EXCEPT !.usart2.txeie = FALSE, !.last.tx = "empty"]
    ELSE m

\* CommandPin, with BR12 and BS12 exchanged
CommandPinSwapped(g, received_byte) ==
    IF received_byte = Ascii0 THEN [g EXCEPT !.odr12 = TRUE]
    ELSE IF received_byte = Ascii1 THEN [g EXCEPT !.odr12 = FALSE]
    ELSE g

\* CommandPin, with BS12 written for every byte but '0'
CommandPinElseOn(g, received_byte) ==
    IF received_byte = Ascii0 THEN [g EXCEPT !.odr12 = FALSE]
    ELSE [g EXCEPT !.odr12 = TRUE]

\* BSRR write for a received byte: BR12 for '0', BS12 for '1', none otherwise
CommandPin(g, received_byte) ==
    IF received_byte = Ascii0 THEN [g EXCEPT !.odr12 = FALSE]
    ELSE IF received_byte = Ascii1 THEN [g EXCEPT !.odr12 = TRUE]
    ELSE g

\* if RXNE: read RDR (clears RXNE) and act on the command
U2_Rx(m) ==
    IF m.usart2.rxne
    THEN LET received_byte == m.usart2.rdr
         IN  [m EXCEPT !.usart2.rxne = FALSE,
                       !.gpioa = CommandPin(m.gpioa, received_byte),
                       !.hostRead = Append(m.hostRead, received_byte),
                       !.last.rx = IF received_byte = Ascii0 THEN "cmd0"
                                   ELSE IF received_byte = Ascii1 THEN "cmd1"
                                   ELSE "ignored"]
    ELSE m

\* U2_Ore, without the ICR write
U2_OreNoClear(m) ==
    IF m.usart2.ore
    THEN [m EXCEPT !.last.ore = TRUE]
    ELSE m

\* if ORE: write ICR.ORECF, which clears ORE
U2_Ore(m) ==
    IF m.usart2.ore
    THEN [m EXCEPT !.usart2.ore = FALSE, !.last.ore = TRUE]
    ELSE m

\* the USART2 interrupt is raised by TXE while CR1.TXEIE is set, and by RXNE
\* or ORE (CR1.RXNEIE is set by main)
Irq2 == (usart2.txeie /\ usart2.txe) \/ usart2.rxne \/ usart2.ore

\* USART2, with the three conditions chained by else
USART2Chained ==
    /\ Irq2
    /\ Commit(IF usart2.txe THEN U2_Tx(Begin("USART2"))
              ELSE IF usart2.rxne THEN U2_Rx(Begin("USART2"))
              ELSE U2_Ore(Begin("USART2")))
    /\ UNCHANGED <<wire, gpsIn, feed, fed, hostFeed, hostFed, cpu>>

USART2 ==
    /\ Irq2
    /\ Commit(U2_Ore(U2_Rx(U2_Tx(Begin("USART2")))))
    /\ UNCHANGED <<wire, gpsIn, feed, fed, hostFeed, hostFed, cpu>>

---------------------------------------------------------------------------
(* The hardware around the handlers *)

\* a byte of the GPS feed arrives on USART1: latched into RDR with RXNE set,
\* or lost with ORE set when RDR still holds an unread byte
GpsRx ==
    /\ fed < Len(feed)
    /\ fed' = fed + 1
    /\ IF usart1.rxne
       THEN /\ usart1' = [usart1 EXCEPT !.ore = TRUE]
            /\ UNCHANGED gpsIn
       ELSE /\ usart1' = [usart1 EXCEPT !.rxne = TRUE, !.rdr = feed[fed + 1]]
            /\ gpsIn' = Append(gpsIn, feed[fed + 1])
    /\ UNCHANGED <<usart2, gpioa, buffer, enq, sent, wire, hostRead, last,
                   feed, hostFeed, hostFed, cpu>>

\* the GPS module sends its next byte only once the previous one was read
GpsRxPaced == ~usart1.rxne /\ GpsRx

\* a byte of the adaptor's feed arrives on USART2
HostRx ==
    /\ hostFed < Len(hostFeed)
    /\ hostFed' = hostFed + 1
    /\ IF usart2.rxne
       THEN usart2' = [usart2 EXCEPT !.ore = TRUE]
       ELSE usart2' = [usart2 EXCEPT !.rxne = TRUE, !.rdr = hostFeed[hostFed + 1]]
    /\ UNCHANGED <<usart1, gpioa, buffer, enq, sent, wire, gpsIn, hostRead, last,
                   feed, fed, hostFeed, cpu>>

\* the transmitter moves TDR to its shift register: TXE is set again
TxShift ==
    /\ ~usart2.txe
    /\ usart2' = [usart2 EXCEPT !.txe = TRUE]
    /\ wire' = Append(wire, usart2.tdr)
    /\ UNCHANGED <<usart1, gpioa, buffer, enq, sent, gpsIn, hostRead, last,
                   feed, fed, hostFeed, hostFed, cpu>>

---------------------------------------------------------------------------
(* The state main() leaves: registers at their reset values, CR1 written   *)
(* without TXEIE, the queue empty                                          *)

\* the statics main() installs
Statics == {"USART1_PERIPHERAL", "USART2_PERIPHERAL", "GPIOA_PERIPHERAL", "BUFFER"}

\* main() in its idle loop: both interrupts unmasked, every static installed
CpuRunning ==
    [main |-> "loop", h1 |-> "idle", h2 |-> "idle", b1 |-> 0, b2 |-> 0,
     unmasked |-> {1, 2}, installed |-> Statics, panicked |-> FALSE,
     acc |-> {}, raced |-> FALSE, steps1 |-> 0, steps2 |-> 0, writes |-> 0]

InitRegisters ==
    /\ usart1 = [rxne |-> FALSE, ore |-> FALSE, rdr |-> 0]
    /\ usart2 = [txe |-> TRUE, rxne |-> FALSE, ore |-> FALSE, rdr |-> 0, tdr |-> 0,
                 txeie |-> FALSE]
    /\ gpioa = [odr12 |-> FALSE]
    /\ buffer = EmptyQueue
    /\ enq = <<>>
    /\ sent = <<>>
    /\ wire = <<>>
    /\ gpsIn = <<>>
    /\ hostRead = <<>>
    /\ last = [h |-> "none", rx |-> "none", tx |-> "none", ore |-> FALSE]
    /\ fed = 0
    /\ hostFed = 0

InitMachine ==
    /\ InitRegisters
    /\ cpu = CpuRunning

Init ==
    /\ InitMachine
    /\ feed \in SeqsOfLen(GpsBytes, MaxFeed)
    /\ hostFeed \in SeqsOfLen(HostBytes, MaxHostRelay)

Next == GpsRx \/ HostRx \/ TxShift \/ USART1 \/ USART2

Spec == Init /\ [][Next]_vars

---------------------------------------------------------------------------
(* Relay claims, checked under Spec *)

\* C1: strict FIFO relay. In every reachable state the values USART2() has
\* written to TDR, followed by the queue's contents head to tail, are exactly
\* the values USART1() enqueued, in order: nothing is reordered, duplicated
\* or altered, and what has been shifted out is a prefix of what was written.
C1_FifoRelay ==
    /\ sent \o Contents(buffer) = enq
    /\ Len(wire) <= Len(sent)
    /\ wire = SubSeq(sent, 1, Len(wire))

\* C1 witness: two different values were transmitted in order while a third
\* is still queued
C1_Witness ==
    /\ sent = <<71, 80>>
    /\ Contents(buffer) = <<71>>
    /\ wire = <<71, 80>>

\* C2: with serialized handlers, between handler invocations the TXE
\* interrupt enable is set exactly when the queue is non-empty.
C2_FlagIffNonEmpty == usart2.txeie <=> ~IsEmpty(buffer)

\* C2 witness: USART2() has written a byte and left others queued, with the
\* interrupt still enabled
C2_Witness ==
    /\ last.h = "USART2"
    /\ last.tx = "sent"
    /\ usart2.txeie
    /\ QueueLen(buffer) = 2

\* C4: enable-flag coherence. A USART1() invocation that enqueues a byte
\* ends with TXEIE set; a USART2() invocation whose dequeue empties the queue
\* ends with TXEIE clear; a USART2() invocation whose dequeue finds the queue
\* empty ends with TXEIE clear.
C4_FlagCoherence ==
    [][ /\ (USART1 /\ Len(enq') = Len(enq) + 1) => usart2'.txeie
        /\ (USART2 /\ Len(sent') = Len(sent) + 1 /\ IsEmpty(buffer')) => ~usart2'.txeie
        /\ (USART2 /\ usart2.txe /\ IsEmpty(buffer)) => ~usart2'.txeie ]_vars

\* C4 witness: after bytes were enqueued and the queue drained, a USART2()
\* invocation found the queue empty and left TXEIE clear
C4_Witness ==
    /\ last.h = "USART2"
    /\ last.tx = "empty"
    /\ Len(sent) >= 2
    /\ ~usart2.txeie

\* C7: null filtering. A USART1() invocation that reads the byte 0 enqueues
\* nothing: queue, queue length and TXEIE are as before the invocation.
C7_NullFiltered ==
    [][ (USART1 /\ usart1.rxne /\ usart1.rdr = 0) =>
            /\ buffer' = buffer
            /\ QueueLen(buffer') = QueueLen(buffer)
            /\ enq' = enq
            /\ usart2'.txeie = usart2.txeie ]_vars

\* C7 witness: USART1() dropped a null byte while a value was queued
C7_Witness ==
    /\ last.h = "USART1"
    /\ last.rx = "null"
    /\ gpsIn = <<71, 0>>
    /\ Contents(buffer) = <<71>>
    /\ usart2.txeie

---------------------------------------------------------------------------
(* Saturation: the GPS module sends a stream of distinct non-null bytes,   *)
(* longer than the ring, each byte once the previous one was read          *)

\* the k-th byte of the stream, never null
StreamByte(k) == 1 + (k % 255)

FillFeed == [k \in 1..(QueueN + FillExtra) |-> StreamByte(k)]

InitFill ==
    /\ InitMachine
    /\ feed = FillFeed
    /\ hostFeed \in {<<Ascii1>>}

NextFill == GpsRxPaced \/ HostRx \/ TxShift \/ USART1 \/ USART2

SpecFill == InitFill /\ [][NextFill]_vars

\* bytes USART1() has read from RDR so far
GpsRead == Len(gpsIn) - (IF usart1.rxne THEN 1 ELSE 0)

Min(a, b) == IF a <= b THEN a ELSE b

\* C5: saturation drop. The number of enqueued values not yet dequeued never
\* exceeds the queue's capacity, and a USART1() invocation that reads a
\* non-null byte while the queue is full leaves the queue (values, order,
\* cursors) and TXEIE as they were: the byte is discarded.
C5_SaturationDrop ==
    /\ [](Len(enq) - Len(sent) <= QueueCapacity)
    /\ [][ (USART1 /\ usart1.rxne /\ usart1.rdr # 0
                   /\ Len(enq) - Len(sent) = QueueCapacity) =>
                /\ buffer' = buffer
                /\ Contents(buffer') = Contents(buffer)
                /\ enq' = enq
                /\ usart2'.txeie = usart2.txeie ]_vars

\* C5 witness: USART1() rejected a byte on a full queue after the ring's
\* cursors had wrapped
C5_Witness ==
    /\ last.h = "USART1"
    /\ last.rx = "full"
    /\ Len(enq) - Len(sent) = QueueCapacity
    /\ Len(sent) = 1
    /\ buffer.tail = 0

\* C6 as stated: the capacity is 64. With no dequeue so far, each of the
\* first 64 bytes USART1() read was enqueued.
C6_Capacity64 ==
    (Len(sent) = 0 /\ GpsRead <= QueueN) => Len(enq) = GpsRead

\* C6 amended: the capacity is 63. With no dequeue so far, the first 63
\* bytes USART1() read were enqueued and every later one was rejected.
C6_Capacity63 ==
    Len(sent) = 0 => /\ Len(enq) = Min(GpsRead, QueueN - 1)
                     /\ enq = SubSeq(gpsIn, 1, Len(enq))

\* C6 witness: with no dequeue, USART1() read 64 bytes, enqueued the first
\* 63 and rejected the 64th
C6_Witness ==
    /\ Len(sent) = 0
    /\ GpsRead = QueueN
    /\ Len(enq) = QueueN - 1
    /\ last.h = "USART1"
    /\ last.rx = "full"

---------------------------------------------------------------------------
(* Commands: longer adaptor feeds, a GPS feed of 'G's in the background *)

InitCmd ==
    /\ InitMachine
    /\ feed \in SeqsOfLen({71}, MaxFeedCmd)
    /\ hostFeed \in SeqsOfLen(HostBytes, MaxHost)

SpecCmd == InitCmd /\ [][Next]_vars

\* the last '0' or '1' among the bytes read, 0 if there is none
RECURSIVE LastCommand(_)
LastCommand(bytes) ==
    IF bytes = <<>> THEN 0
    ELSE IF bytes[Len(bytes)] \in {Ascii0, Ascii1} THEN bytes[Len(bytes)]
    ELSE LastCommand(SubSeq(bytes, 1, Len(bytes) - 1))

\* C9: command semantics. In every reachable state pin A12 is ON if the most
\* recent '0' or '1' that USART2() read was '1', OFF if it was '0', and at
\* its reset value (OFF) if none was read; the pin changes only in a
\* USART2() invocation that reads '0' or '1' from RDR.
C9_PinFollowsCommand ==
    /\ [](gpioa.odr12 = (LastCommand(hostRead) = Ascii1))
    /\ [][ gpioa' # gpioa =>
                USART2 /\ usart2.rxne /\ usart2.rdr \in {Ascii0, Ascii1} ]_vars

\* C9 witness: '1' was read with the pin already ON, then '0' turned it OFF
C9_Witness ==
    /\ hostRead = <<Ascii1, Ascii1, Ascii0>>
    /\ ~gpioa.odr12
    /\ enq # <<>>

\* C10: command isolation. When the receive branch of USART2() reads a byte
\* other than '0' and '1', the invocation leaves the pin as it was, and the
\* queue and TXEIE as the transmit branch alone leaves them.
C10_CommandIsolation ==
    [][ (USART2 /\ usart2.rxne /\ usart2.rdr \notin {Ascii0, Ascii1}) =>
            /\ gpioa' = gpioa
            /\ buffer' = U2_Tx(Cur).buffer
            /\ usart2'.txeie = U2_Tx(Cur).usart2.txeie
            /\ (~usart2.txe => buffer' = buffer /\ usart2'.txeie = usart2.txeie) ]_vars

\* C10 witness: with the pin ON and a value queued, USART2() read '2' while
\* the transmitter was busy: pin, queue and TXEIE are as before
C10_Witness ==
    /\ last.h = "USART2"
    /\ last.rx = "ignored"
    /\ last.tx = "none"
    /\ hostRead = <<Ascii1, 50>>
    /\ gpioa.odr12
    /\ QueueLen(buffer) = 1
    /\ usart2.txeie

---------------------------------------------------------------------------
(* Delivery: pending interrupts are dispatched and the transmitter         *)
(* empties TDR                                                             *)

\* the end-to-end scenario: 'G', 'P', 'S', null, '!'
Scenario == <<71, 80, 83, 0, 33>>

InitLive ==
    /\ InitMachine
    /\ feed \in SeqsOfLen(GpsBytes, MaxFeedLive) \cup {Scenario}
    /\ hostFeed \in {<<Ascii1>>}

SpecLive ==
    /\ InitLive
    /\ [][Next]_vars
    /\ WF_vars(USART1)
    /\ WF_vars(USART2)
    /\ WF_vars(TxShift)

\* the longest GPS feed of SpecLive
MaxLiveLen == IF MaxFeedLive > Len(Scenario) THEN MaxFeedLive ELSE Len(Scenario)

\* bytes without the null bytes
RECURSIVE StripNull(_)
StripNull(bytes) ==
    IF bytes = <<>> THEN <<>>
    ELSE IF bytes[1] = 0 THEN StripNull(Tail(bytes))
    ELSE <<bytes[1]>> \o StripNull(Tail(bytes))

\* C3: eventual delivery. Every value USART1() enqueues is eventually
\* written to TDR by USART2(), and whenever a value is queued and TDR is
\* empty the USART2 interrupt is raised.
C3_EventualDelivery ==
    /\ \A i \in 1..MaxLiveLen :
           (Len(enq) >= i) ~> (Len(sent) >= i /\ sent[i] = enq[i])
    /\ [](~IsEmpty(buffer) /\ usart2.txe => Irq2)

\* C3 witness: every enqueued value of the scenario was written to TDR
C3_Witness ==
    /\ enq = <<71, 80, 83, 33>>
    /\ sent = enq

\* C8: end-to-end relay and quiescence. From the initial state (queue empty,
\* TXEIE clear) the system reaches, and stays in, states where the bytes
\* shifted out on USART2 are the bytes received on USART1 without the null
\* bytes, in order, the queue is empty and TXEIE is clear; TXEIE is set
\* only by an invocation that enqueues a byte.
C8_RelayQuiescence ==
    /\ <>[](/\ wire = StripNull(gpsIn)
             /\ IsEmpty(buffer)
             /\ ~usart2.txeie)
    /\ [][ (~usart2.txeie /\ usart2'.txeie) => Len(enq') = Len(enq) + 1 ]_vars

\* C8 witness: the scenario was received whole and relayed without its null
\* byte; the queue is drained and TXEIE is clear
C8_Witness ==
    /\ gpsIn = Scenario
    /\ wire = <<71, 80, 83, 33>>
    /\ IsEmpty(buffer)
    /\ ~usart2.txeie

---------------------------------------------------------------------------
(* Claims on the handlers' branches, checked with serialized handlers *)

\* C11: overrun clearing. A handler invoked with ORE set on its link ends
\* with ORE clear, and the clearing changes nothing else: queue, TXEIE and
\* pin are as the handler's other branches leave them.
C11_OverrunCleared ==
    [][ /\ (USART1 /\ usart1.ore) =>
                /\ ~usart1'.ore
                /\ buffer' = U1_Rx(Cur).buffer
                /\ usart2'.txeie = U1_Rx(Cur).usart2.txeie
                /\ gpioa' = gpioa
        /\ (USART2 /\ usart2.ore) =>
                /\ ~usart2'.ore
                /\ buffer' = U2_Rx(U2_Tx(Cur)).buffer
                /\ usart2'.txeie = U2_Rx(U2_Tx(Cur)).usart2.txeie
                /\ gpioa' = U2_Rx(U2_Tx(Cur)).gpioa ]_vars

\* C11 witness: both links overran; USART1() cleared its overrun and then
\* USART2() cleared its own, the pin still ON and the enqueued value kept
C11_Witness ==
    /\ last.h = "USART2"
    /\ last.ore
    /\ ~usart2.ore
    /\ fed = 2 /\ Len(gpsIn) = 1 /\ ~usart1.ore /\ ~usart1.rxne
    /\ hostRead = <<Ascii1, Ascii1>>
    /\ hostFed = 3
    /\ gpioa.odr12
    /\ enq = <<71>>

\* C14: the enable flag's state machine. TXEIE is clear initially; it is
\* set only by a USART1() invocation that enqueues a byte, and cleared only
\* by a USART2() invocation that finds TXE set and either wrote the last
\* queued value or found the queue empty.
C14_FlagStateMachine ==
    /\ ~usart2.txeie
    /\ [][ /\ (~usart2.txeie /\ usart2'.txeie) =>
                  (USART1 /\ enq' = Append(enq, usart1.rdr))
           /\ (usart2.txeie /\ ~usart2'.txeie) =>
                  /\ USART2
                  /\ usart2.txe
                  /\ IsEmpty(buffer')
                  /\ \/ Len(sent') = Len(sent) + 1
                     \/ IsEmpty(buffer) ]_vars

\* C14 witness: the flag was set by enqueues and cleared again by the
\* USART2() invocation that wrote the last queued value
C14_Witness ==
    /\ last.h = "USART2"
    /\ last.tx = "sent_last"
    /\ sent = <<80, 71>>
    /\ ~usart2.txeie

\* C16: independent condition checks. A USART2() invocation acts on each of
\* TXE, RXNE and ORE that is set when it runs, whatever the others are: with
\* TXE it writes the head of a non-empty queue to TDR (or clears TXEIE on an
\* empty one), with RXNE it reads RDR and applies the command, with ORE it
\* clears the overrun; a condition that is clear has no effect.
C16_IndependentChecks ==
    [][ USART2 =>
          /\ (usart2.txe /\ ~IsEmpty(buffer)) =>
                 /\ sent' = Append(sent, Contents(buffer)[1])
                 /\ QueueLen(buffer') = QueueLen(buffer) - 1
          /\ (usart2.txe /\ IsEmpty(buffer)) => ~usart2'.txeie
          /\ ~usart2.txe => (sent' = sent /\ buffer' = buffer)
          /\ usart2.rxne =>
                 /\ hostRead' = Append(hostRead, usart2.rdr)
                 /\ ~usart2'.rxne
                 /\ (usart2.rdr = Ascii0 => ~gpioa'.odr12)
                 /\ (usart2.rdr = Ascii1 => gpioa'.odr12)
          /\ ~usart2.rxne => (hostRead' = hostRead /\ gpioa' = gpioa)
          /\ usart2.ore => ~usart2'.ore ]_vars

\* C16 witness: one USART2() invocation wrote a queued value to TDR, applied
\* the command '1' and cleared an overrun
C16_Witness ==
    /\ last.h = "USART2"
    /\ last.tx = "sent_last"
    /\ last.rx = "cmd1"
    /\ last.ore
    /\ sent = <<71>>
    /\ hostRead = <<Ascii1>>
    /\ gpioa.odr12
    /\ ~usart2.ore

---------------------------------------------------------------------------
(* The handlers step by step: one action per register or queue access, so  *)
(* that main(), a pending interrupt and a preempting handler can come      *)
(* between two accesses.  cpu.h1 and cpu.h2 are the handlers' positions,   *)
(* cpu.b1 and cpu.b2 their local byte.                                     *)

StepFrame == UNCHANGED <<wire, gpsIn, last, feed, fed, hostFeed, hostFed>>

\* USART1() is at pc: it runs whenever it is active
At1(pc) == ~cpu.panicked /\ cpu.h1 = pc

\* USART2() is at pc and USART1() is not active
At2(pc) == ~cpu.panicked /\ cpu.h1 = "idle" /\ cpu.h2 = pc

\* handler h accesses register reg of peripheral periph
Touch(h, periph, reg) ==
    [cpu EXCEPT !.acc = @ \cup {<<h, periph, reg>>},
                !.steps1 = IF h = "USART1" THEN @ + 1 ELSE @,
                !.steps2 = IF h = "USART2" THEN @ + 1 ELSE @]

\* the statics each handler unwraps on entry
Unwraps1 == {"USART1_PERIPHERAL", "USART2_PERIPHERAL", "BUFFER"}
Unwraps2 == {"USART2_PERIPHERAL", "GPIOA_PERIPHERAL", "BUFFER"}

\* handler entry: the three unwrap()s; None panics, and the panic handler
\* never returns
Entered1 ==
    IF Unwraps1 \subseteq cpu.installed
    THEN [cpu EXCEPT !.h1 = "rxne", !.steps1 = 0]
    ELSE [cpu EXCEPT !.h1 = "panic", !.panicked = TRUE]

Entered2 ==
    IF Unwraps2 \subseteq cpu.installed
    THEN [cpu EXCEPT !.h2 = "txe", !.steps2 = 0, !.writes = 0]
    ELSE [cpu EXCEPT !.h2 = "panic", !.panicked = TRUE]

\* the interrupt is pending and unmasked in the NVIC
Dispatchable1 == Irq1 /\ 1 \in cpu.unmasked
Dispatchable2 == Irq2 /\ 2 \in cpu.unmasked

\* USART1() is entered while no handler is active
Enter1 ==
    /\ Dispatchable1
    /\ ~cpu.panicked /\ cpu.h1 = "idle" /\ cpu.h2 = "idle"
    /\ cpu' = Entered1
    /\ UNCHANGED <<usart1, usart2, gpioa, buffer, enq, sent, hostRead>>
    /\ StepFrame

\* USART1() is entered between two steps of USART2() (USART1 given the
\* higher priority)
Preempt1 ==
    /\ Dispatchable1
    /\ ~cpu.panicked /\ cpu.h1 = "idle" /\ cpu.h2 \notin {"idle", "panic"}
    /\ cpu' = Entered1
    /\ UNCHANGED <<usart1, usart2, gpioa, buffer, enq, sent, hostRead>>
    /\ StepFrame

\* usart1.isr.read().rxne()
S1_Rxne ==
    /\ At1("rxne")
    /\ cpu' = [Touch("USART1", "USART1", "ISR") EXCEPT
                 !.h1 = IF usart1.rxne THEN "rdr" ELSE "ore"]
    /\ UNCHANGED <<usart1, usart2, gpioa, buffer, enq, sent, hostRead>>
    /\ StepFrame

\* usart1.rdr.read(): clears RXNE; received_byte != 0
S1_Rdr ==
    /\ At1("rdr")
    /\ usart1' = [usart1 EXCEPT !.rxne = FALSE]
    /\ cpu' = [Touch("USART1", "USART1", "RDR") EXCEPT
                 !.b1 = usart1.rdr,
                 !.h1 = IF usart1.rdr # 0 THEN "enqueue" ELSE "ore"]
    /\ UNCHANGED <<usart2, gpioa, buffer, enq, sent, hostRead>>
    /\ StepFrame

\* buffer.enqueue(received_byte).is_ok(); cpu.raced records whether the
\* enqueue fell between USART2()'s emptiness test and its TXEIE write
S1_Enqueue ==
    /\ At1("enqueue")
    /\ LET r == Enqueue(buffer, cpu.b1)
       IN  /\ buffer' = r.q
           /\ enq' = IF r.ok THEN Append(enq, cpu.b1) ELSE enq
           /\ cpu' = [cpu EXCEPT !.steps1 = @ + 1,
                                 !.raced = IF r.ok THEN cpu.h2 = "disable" ELSE @,
                                 !.h1 = IF r.ok THEN "enable" ELSE "ore"]
    /\ UNCHANGED <<usart1, usart2, gpioa, sent, hostRead>>
    /\ StepFrame

\* S1_Enable, without the CR1 write
S1_EnableSkipped ==
    /\ At1("enable")
    /\ cpu' = [cpu EXCEPT !.steps1 = @ + 1, !.h1 = "ore"]
    /\ UNCHANGED <<usart1, usart2, gpioa, buffer, enq, sent, hostRead>>
    /\ StepFrame

\* usart2.cr1.modify(|_, w| w.txeie().enabled())
S1_Enable ==
    /\ At1("enable")
    /\ usart2' = [usart2 EXCEPT !.txeie = TRUE]
    /\ cpu' = [Touch("USART1", "USART2", "CR1") EXCEPT !.h1 = "ore"]
    /\ UNCHANGED <<usart1, gpioa, buffer, enq, sent, hostRead>>
    /\ StepFrame

\* usart1.isr.read().ore(); the handler returns if it is clear
S1_Ore ==
    /\ At1("ore")
    /\ cpu' = IF usart1.ore
              THEN [Touch("USART1", "USART1", "ISR") EXCEPT !.h1 = "orecf"]
              ELSE [Touch("USART1", "USART1", "ISR") EXCEPT !.h1 = "idle", !.steps1 = 0]
    /\ UNCHANGED <<usart1, usart2, gpioa, buffer, enq, sent, hostRead>>
    /\ StepFrame

\* S1_Orecf, clearing the overrun of USART2 instead
S1_OrecfOtherLink ==
    /\ At1("orecf")
    /\ usart1' = [usart1 EXCEPT !.ore = FALSE]
    /\ usart2' = [usart2 EXCEPT !.ore = FALSE]
    /\ cpu' = [Touch("USART1", "USART2", "ICR") EXCEPT !.h1 = "idle", !.steps1 = 0]
    /\ UNCHANGED <<gpioa, buffer, enq, sent, hostRead>>
    /\ StepFrame

\* usart1.icr.write(|w| w.orecf().set_bit()); the handler returns
S1_Orecf ==
    /\ At1("orecf")
    /\ usart1' = [usart1 EXCEPT !.ore = FALSE]
    /\ cpu' = [Touch("USART1", "USART1", "ICR") EXCEPT !.h1 = "idle", !.steps1 = 0]
    /\ UNCHANGED <<usart2, gpioa, buffer, enq, sent, hostRead>>
    /\ StepFrame

Step1 == S1_Rxne \/ S1_Rdr \/ S1_Enqueue \/ S1_Enable \/ S1_Ore \/ S1_Orecf

\* USART2() is entered while no handler is active
Enter2 ==
    /\ Dispatchable2
    /\ ~cpu.panicked /\ cpu.h1 = "idle" /\ cpu.h2 = "idle"
    /\ cpu' = Entered2
    /\ UNCHANGED <<usart1, usart2, gpioa, buffer, enq, sent, hostRead>>
    /\ StepFrame

\* S2_Txe, going on to the dequeue whatever TXE is
S2_TxeIgnored ==
    /\ At2("txe")
    /\ cpu' = [Touch("USART2", "USART2", "ISR") EXCEPT !.h2 = "dequeue"]
    /\ UNCHANGED <<usart1, usart2, gpioa, buffer, enq, sent, hostRead>>
    /\ StepFrame

\* S2_Txe, waiting for TXE before going on
S2_TxeAwaited ==
    /\ At2("txe")
    /\ usart2.txe
    /\ cpu' = [Touch("USART2", "USART2", "ISR") EXCEPT !.h2 = "dequeue"]
    /\ UNCHANGED <<usart1, usart2, gpioa, buffer, enq, sent, hostRead>>
    /\ StepFrame

\* usart2.isr.read().txe()
S2_Txe ==
    /\ At2("txe")
    /\ cpu' = [Touch("USART2", "USART2", "ISR") EXCEPT
                 !.h2 = IF usart2.txe THEN "dequeue" ELSE "rxne"]
    /\ UNCHANGED <<usart1, usart2, gpioa, buffer, enq, sent, hostRead>>
    /\ StepFrame

\* match buffer.dequeue()
S2_Dequeue ==
    /\ At2("dequeue")
    /\ LET d == Dequeue(buffer)
       IN  /\ buffer' = d.q
           /\ cpu' = [cpu EXCEPT !.steps2 = @ + 1,
                                 !.b2 = d.val,
                                 !.h2 = IF d.some THEN "tdr" ELSE "disable"]
    /\ UNCHANGED <<usart1, usart2, gpioa, enq, sent, hostRead>>
    /\ StepFrame

\* usart2.tdr.write(|w| w.tdr().bits(byte)): clears TXE
S2_Tdr ==
    /\ At2("tdr")
    /\ usart2' = [usart2 EXCEPT !.tdr = cpu.b2, !.txe = FALSE]
    /\ sent' = Append(sent, cpu.b2)
    /\ cpu' = [Touch("USART2", "USART2", "TDR") EXCEPT
                 !.writes = @ + 1, !.h2 = "is_empty"]
    /\ UNCHANGED <<usart1, gpioa, buffer, enq, hostRead>>
    /\ StepFrame

\* if buffer.is_empty()
S2_IsEmpty ==
    /\ At2("is_empty")
    /\ cpu' = [cpu EXCEPT !.steps2 = @ + 1,
                          !.h2 = IF IsEmpty(buffer) THEN "disable" ELSE "rxne"]
    /\ UNCHANGED <<usart1, usart2, gpioa, buffer, enq, sent, hostRead>>
    /\ StepFrame

\* usart2.cr1.modify(|_, w| w.txeie().disabled()), in either match arm
S2_Disable ==
    /\ At2("disable")
    /\ usart2' = [usart2 EXCEPT !.txeie = FALSE]
    /\ cpu' = [Touch("USART2", "USART2", "CR1") EXCEPT !.h2 = "rxne"]
    /\ UNCHANGED <<usart1, gpioa, buffer, enq, sent, hostRead>>
    /\ StepFrame

\* usart2.isr.read().rxne()
S2_Rxne ==
    /\ At2("rxne")
    /\ cpu' = [Touch("USART2", "USART2", "ISR") EXCEPT
                 !.h2 = IF usart2.rxne THEN "rdr" ELSE "ore"]
    /\ UNCHANGED <<usart1, usart2, gpioa, buffer, enq, sent, hostRead>>
    /\ StepFrame

\* usart2.rdr.read(): clears RXNE; the byte is compared with b'0' and b'1'
S2_Rdr ==
    /\ At2("rdr")
    /\ usart2' = [usart2 EXCEPT !.rxne = FALSE]
    /\ hostRead' = Append(hostRead, usart2.rdr)
    /\ cpu' = [Touch("USART2", "USART2", "RDR") EXCEPT
                 !.b2 = usart2.rdr,
                 !.h2 = IF usart2.rdr \in {Ascii0, Ascii1} THEN "bsrr" ELSE "ore"]
    /\ UNCHANGED <<usart1, gpioa, buffer, enq, sent>>
    /\ StepFrame

\* gpioa.bsrr.write(..): BR12 or BS12
S2_Bsrr ==
    /\ At2("bsrr")
    /\ gpioa' = CommandPin(gpioa, cpu.b2)
    /\ cpu' = [Touch("USART2", "GPIOA", "BSRR") EXCEPT !.h2 = "ore"]
    /\ UNCHANGED <<usart1, usart2, buffer, enq, sent, hostRead>>
    /\ StepFrame

\* usart2.isr.read().ore(); the handler returns if it is clear
S2_Ore ==
    /\ At2("ore")
    /\ cpu' = IF usart2.ore
              THEN [Touch("USART2", "USART2", "ISR") EXCEPT !.h2 = "orecf"]
              ELSE [Touch("USART2", "USART2", "ISR") EXCEPT
                      !.h2 = "idle", !.steps2 = 0, !.writes = 0]
    /\ UNCHANGED <<usart1, usart2, gpioa, buffer, enq, sent, hostRead>>
    /\ StepFrame

\* usart2.icr.write(|w| w.orecf().set_bit()); the handler returns
S2_Orecf ==
    /\ At2("orecf")
    /\ usart2' = [usart2 EXCEPT !.ore = FALSE]
    /\ cpu' = [Touch("USART2", "USART2", "ICR") EXCEPT
                 !.h2 = "idle", !.steps2 = 0, !.writes = 0]
    /\ UNCHANGED <<usart1, gpioa, buffer, enq, sent, hostRead>>
    /\ StepFrame

Step2 ==
    \/ S2_Txe \/ S2_Dequeue \/ S2_Tdr \/ S2_IsEmpty \/ S2_Disable
    \/ S2_Rxne \/ S2_Rdr \/ S2_Bsrr \/ S2_Ore \/ S2_Orecf

---------------------------------------------------------------------------
(* Preemption: main() idles, USART1 has the higher priority and may        *)
(* preempt USART2() between any two of its steps                           *)

\* the GPS feed of the stepped specifications: 'G', 'P', 'G', ...
StepFeed == [i \in 1..MaxFeedStep |-> IF i % 2 = 1 THEN 71 ELSE 80]

InitPreempt ==
    /\ InitMachine
    /\ feed = StepFeed
    /\ hostFeed \in SeqsOfLen({Ascii1, 50}, MaxHostStep)

NextPreempt ==
    \/ GpsRx \/ HostRx \/ TxShift
    \/ Enter1 \/ Preempt1 \/ Step1
    \/ Enter2 \/ Step2

SpecPreempt == InitPreempt /\ [][NextPreempt]_vars

\* no handler is active
Returned == cpu.h1 = "idle" /\ cpu.h2 = "idle"

C15_ExclusiveOwnership ==
    \A a \in cpu.acc : \A b \in cpu.acc : a[2] = b[2] => a[1] = b[1]

\* C15 amended: USART1() accesses the USART1 registers and USART2's CR1 and
\* nothing else; USART2() accesses USART2 and GPIOA registers only; so
\* USART1 and GPIOA each have one handler, USART2 has both, and CR1 of
\* USART2 is the only register both handlers access.
C15_SharedOnlyCr1 ==
    /\ \A a \in cpu.acc :
          a[1] = "USART1" => (a[2] = "USART1" \/ <<a[2], a[3]>> = <<"USART2", "CR1">>)
    /\ \A a \in cpu.acc :
          a[1] = "USART2" => a[2] \in {"USART2", "GPIOA"}
    /\ \A a \in cpu.acc : \A b \in cpu.acc :
          (a[1] # b[1] /\ a[2] = b[2] /\ a[3] = b[3]) => <<a[2], a[3]>> = <<"USART2", "CR1">>

\* C15 witness: both handlers have written CR1 of USART2, and each has
\* accessed its own peripherals
C15_Witness ==
    /\ <<"USART1", "USART2", "CR1">> \in cpu.acc
    /\ <<"USART2", "USART2", "CR1">> \in cpu.acc
    /\ <<"USART1", "USART1", "ICR">> \in cpu.acc
    /\ <<"USART2", "GPIOA", "BSRR">> \in cpu.acc

\* the byte in TDR the transmitter has not taken yet
PendingTdr == IF usart2.txe THEN <<>> ELSE <<usart2.tdr>>

\* the byte USART2() has dequeued and not yet written
PendingByte == IF cpu.h2 = "tdr" THEN <<cpu.b2>> ELSE <<>>

\* C17: no transmit overwrite, no lost dequeue. USART2() writes TDR only
\* with TXE set and at most once per invocation; every byte written is
\* shifted out before the next write; every dequeued value is written.
C17_NoTransmitOverwrite ==
    /\ cpu.h2 = "tdr" => usart2.txe
    /\ cpu.writes <= 1
    /\ sent = wire \o PendingTdr
    /\ enq = sent \o PendingByte \o Contents(buffer)

\* C17 witness: two invocations wrote one byte each; the first was shifted
\* out, the second is in TDR
C17_Witness ==
    /\ sent = <<71, 80>>
    /\ wire = <<71>>
    /\ ~usart2.txe
    /\ cpu.h2 = "idle"

\* C18: non-blocking handlers. An active handler can always take its next
\* step, whatever the hardware flags and the queue hold (USART2() while
\* USART1() is not running on the processor), and an invocation takes at
\* most 6 steps of USART1() and 10 of USART2().
C18_NonBlocking ==
    /\ cpu.h1 # "idle" => ENABLED Step1
    /\ (cpu.h2 # "idle" /\ cpu.h1 = "idle") => ENABLED Step2
    /\ cpu.steps1 <= 5
    /\ cpu.steps2 <= 9

\* C18 witness: USART2() on its longest path (TXE test, dequeue, TDR write,
\* is_empty, CR1 write, RXNE test, RDR read, BSRR write, ORE test), with TXE
\* clear and the queue empty, about to clear the overrun
C18_Witness ==
    /\ cpu.h2 = "orecf"
    /\ cpu.steps2 = 9
    /\ ~usart2.txe
    /\ IsEmpty(buffer)

---------------------------------------------------------------------------
(* Startup: main() from its CR1 writes to its idle loop, the handlers      *)
(* at equal priority                                                       *)

\* one statement of main(), lines 125 to 148
MainStep(c) ==
    CASE c.main = "cr1_usart1"   -> [c EXCEPT !.main = "cr1_usart2"]
      [] c.main = "cr1_usart2"   -> [c EXCEPT !.main = "buffer"]
      [] c.main = "buffer"       -> [c EXCEPT !.main = "unmask1",
                                              !.installed = @ \cup {"BUFFER"}]
      [] c.main = "unmask1"      -> [c EXCEPT !.main = "unmask2",
                                              !.unmasked = @ \cup {1}]
      [] c.main = "unmask2"      -> [c EXCEPT !.main = "store_usart1",
                                              !.unmasked = @ \cup {2}]
      [] c.main = "store_usart1" -> [c EXCEPT !.main = "store_usart2",
                                              !.installed = @ \cup {"USART1_PERIPHERAL"}]
      [] c.main = "store_usart2" -> [c EXCEPT !.main = "store_gpioa",
                                              !.installed = @ \cup {"USART2_PERIPHERAL"}]
      [] c.main = "store_gpioa"  -> [c EXCEPT !.main = "loop",
                                              !.installed = @ \cup {"GPIOA_PERIPHERAL"}]
      [] OTHER                   -> c

\* main() runs while no handler is active and no interrupt can be taken
Main ==
    /\ cpu.main # "loop"
    /\ ~cpu.panicked /\ Returned
    /\ ~Dispatchable1 /\ ~Dispatchable2
    /\ cpu' = MainStep(cpu)
    /\ UNCHANGED <<usart1, usart2, gpioa, buffer, enq, sent, hostRead>>
    /\ StepFrame

\* bytes arrive once main() has enabled the receiver (CR1.RE, CR1.UE)
GpsRxBoot == cpu.main # "cr1_usart1" /\ GpsRx
HostRxBoot == cpu.main \notin {"cr1_usart1", "cr1_usart2"} /\ HostRx

CpuBoot == [CpuRunning EXCEPT !.main = "cr1_usart1", !.unmasked = {}, !.installed = {}]

InitBoot ==
    /\ InitRegisters
    /\ cpu = CpuBoot
    /\ feed = StepFeed
    /\ hostFeed \in SeqsOfLen({Ascii1, 50}, MaxHostStep)

NextBoot ==
    \/ Main
    \/ GpsRxBoot \/ HostRxBoot \/ TxShift
    \/ Enter1 \/ Step1
    \/ Enter2 \/ Step2

SpecBoot == InitBoot /\ [][NextBoot]_vars

\* C13: handles valid before use. Whenever a handler has been entered, the
\* statics it unwraps were installed by main(): no invocation panics.
C13_HandlesValid ==
    /\ cpu.h1 # "idle" => Unwraps1 \subseteq cpu.installed
    /\ cpu.h2 # "idle" => Unwraps2 \subseteq cpu.installed
    /\ ~cpu.panicked

====
